---- MODULE Spec2Model ----
(***************************************************************************)
(* A model of the real-time core of the voice-test client:                 *)
(*   - VoiceAgentWebSocket (src/web/js/services/audio-capture.js:209-600), *)
(*     the connection manager: connect / handshake / heartbeat /           *)
(*     reconnection / disconnect;                                          *)
(*   - AudioCaptureService (src/web/js/services/audio-capture.js:6-186),   *)
(*     the capture pipeline that forwards chunks to a bound connection.    *)
(*                                                                         *)
(*   - SessionStore (src/web/js/stores/sessionStore.js), the test           *)
(*     coordinator: sessions, tasks, submissions, completion.              *)
(*                                                                         *)
(* One action of the model is one task of the JavaScript event loop: an    *)
(* API call, a transport event (open / message / error / close), a timer   *)
(* callback or the resumption of an awaited blob read.  The promise        *)
(* reactions a task queues (then / catch / await continuations) run as     *)
(* microtasks before the next task, so they belong to the same action.     *)
(***************************************************************************)
EXTENDS Integers, Sequences, FiniteSets, TLC

\* ------------------------------------------------------------------ bounds
\* WebSocket objects alive at once (a closed, unreferenced one is collected)
MaxSockets == 2
\* reconnection timers pending at once
MaxTimers == 1
\* distinct test sessions a caller connects to
NSessions == 2
\* chunks the capture pipeline produces
MaxChunks == 3
\* recordings started
MaxRecordings == 2
\* auth messages a socket's backend holds unanswered
MaxUnanswered == 1
\* orphaned heartbeat intervals are counted up to this many
MaxOrphans == 1
\* SessionStore operations in flight at once
MaxOps == 2
\* sessions the backend creates
MaxCreated == 2
\* recordings a test state comes to hold
MaxKept == 2
\* microphone streams held at once
MaxStreams == 2

\* --------------------------------------------------------- program constants
MAX_RECONNECT_ATTEMPTS == 5
RECONNECT_DELAY == 1000

Sessions == 1..NSessions
\* the auth token that belongs to a session
TokenOf(s) == s
Slots == 1..MaxSockets
\* history counters saturate one past the reconnection cap
Cap == MAX_RECONNECT_ATTEMPTS + 1
Inc(n) == IF n < Cap THEN n + 1 ELSE n
\* the reconnection history: recorded only by the specifications that set `on`
\* sched / delay: the attempt number and the delay (ms) of the reconnection
\* timer scheduled last
NoHistory == [on |-> FALSE, attempts |-> 0, failed |-> 0, emitted |-> 0,
              sched |-> 0, delay |-> 0]
\* no send() call by a client yet
NoSend == [called |-> FALSE, authed |-> FALSE, wrote |-> FALSE, returned |-> FALSE]

VARIABLES
    \* ---- VoiceAgentWebSocket fields
    socket,             \* this.socket: a slot, or 0 for null
    sessionId,          \* this.sessionId: a session, or 0 for null
    isConnected,
    isAuthenticated,
    reconnectAttempts,
    heartbeatInterval,  \* this.heartbeatInterval is non-null
    listeners,          \* eventListeners.get('message'): the auth listeners, by call
    \* ---- the runtime: sockets with their closures, timers
    calls,              \* per slot: one connect() call, its WebSocket and promises
    timers,             \* pending reconnection timers, per captured authToken
    orphans,            \* running heartbeat intervals whose handle was overwritten
    \* ---- AudioCaptureService fields and runtime
    websocket,          \* this.websocket: "null", "wrapper" (the manager) or
                        \*   "raw" (an open WebSocket of the caller's)
    isRecording,
    audioStream,        \* this.audioStream is non-null
    mediaRecorder,      \* "null", "recording", "stopping" or "inactive"
    recording,          \* the number of the recording last started
    flushing,           \* stopped recorders whose final dataavailable is due
    produced,           \* chunks produced so far; a chunk is [rec, seq]
    reading,            \* handleAudioChunk calls suspended on blob.arrayBuffer()
    \* ---- what the backend has received, and history
    audioWire,          \* audio_chunk messages written to a transport, in order
    authedChunks,       \* chunks produced while the bound connection was authenticated
    sendLog,            \* the last send() call of a client: was the manager
                        \*   authenticated, was the message written, the flag returned
    pingLog,            \* values of isAuthenticated under which a ping was written
    hist,               \* reconnection history since Authenticated / connect():
                        \*   attempts: connects made by reconnection timers,
                        \*   failed: those whose promise rejected,
                        \*   emitted: reconnectionFailed events
    userClosed,         \* disconnect() was called and no connect() since
    \* ---- SessionStore
    store,              \* the fields: currentSession, testState, isLoading, error,
                        \*   websocketConnected
    ops,                \* the async operations of the store, each with its position
    loggedIn,           \* auth.isLoggedIn()
    created,            \* sessions the backend has created
    subs,               \* since the test state was last set up: submitResponse
                        \*   calls returned, ok (successful), failed (some call
                        \*   failed); nexts, the nextTask() calls made (counted
                        \*   up to totalTasks - 1); conv, the last reply of the
                        \*   start-task API had a conversation_start written
    capture,            \* the recorders in state 'recording' (active) and, when
                        \*   recorded (on): live, the microphone streams
                        \*   acquired and not stopped; cleaned, cleanup() has
                        \*   run; justCleaned, it was the last call; last, the
                        \*   last startRecording() call; and when recorded
                        \*   (sinks): boundAt, each chunk
                        \*   with the sink bound when it was produced;
                        \*   handedTo, each chunk with the sink it was given
                        \*   to ("null": to none) after its blob was read
    script              \* where a client that walks through one practice run
                        \*   stands: pc "off" when no such client is at work

vars == << socket, sessionId, isConnected, isAuthenticated,
           reconnectAttempts, heartbeatInterval, listeners, calls, timers,
           orphans, websocket, isRecording, audioStream, mediaRecorder,
           recording, flushing, produced, reading, audioWire, authedChunks, hist,
           userClosed, sendLog, pingLog, store, ops, loggedIn, created, subs,
           capture, script >>

\* The whole state as one record, so that handlers compose as functions.
World ==
    [ socket |-> socket, sessionId |-> sessionId,
      isConnected |-> isConnected, isAuthenticated |-> isAuthenticated,
      reconnectAttempts |-> reconnectAttempts,
      heartbeatInterval |-> heartbeatInterval, listeners |-> listeners,
      calls |-> calls, timers |-> timers, orphans |-> orphans,
      websocket |-> websocket, isRecording |-> isRecording,
      audioStream |-> audioStream, mediaRecorder |-> mediaRecorder,
      recording |-> recording, flushing |-> flushing, produced |-> produced, reading |-> reading,
      audioWire |-> audioWire, authedChunks |-> authedChunks,
      hist |-> hist, userClosed |-> userClosed,
      sendLog |-> sendLog, pingLog |-> pingLog,
      store |-> store, ops |-> ops, loggedIn |-> loggedIn,
      created |-> created, subs |-> subs, capture |-> capture,
      script |-> script ]

\* A slot holding no WebSocket.
FreeCall ==
    [ ready     |-> "free",   \* readyState: connecting, open, closing, closed
      sid       |-> 0,        \* the session in the URL the socket was opened on
      token     |-> 0,        \* authToken captured by the handlers' closures
      viaTimer  |-> FALSE,    \* connect() was called by a reconnection timer
      promise   |-> "none",   \* the promise connect() returned
      auth      |-> "none",   \* the promise authenticate() returned
      authTimer |-> FALSE,    \* authenticate()'s 10 s timeout is pending
      sentOwn   |-> FALSE,    \* authenticate() wrote its auth message to this socket
      authRecv  |-> 0,        \* auth messages the backend received here, unanswered
      reply     |-> "none" ]  \* the last handshake reply that arrived on this socket

\* A WebSocket nothing can reach any more: closed, not this.socket, and its
\* connect() call has neither a pending timeout nor a registered listener.
Collectable(w, c) ==
    /\ w.calls[c].ready = "closed"
    /\ w.socket # c
    /\ ~w.calls[c].authTimer
    /\ \A i \in 1..Len(w.listeners) : w.listeners[i] # c

\* Garbage collection.  A timeout whose authenticate() promise is settled
\* does nothing when it fires (its listener is already removed, its reject is
\* ignored), so it is dropped as soon as the promise settles.
Collect(w) ==
    LET w1 == [w EXCEPT !.calls = [c \in Slots |->
                 IF w.calls[c].auth \in {"resolved", "rejected", "timeout"}
                 THEN [w.calls[c] EXCEPT !.authTimer = FALSE]
                 ELSE w.calls[c]]]
    IN  [w1 EXCEPT !.calls = [c \in Slots |->
            IF Collectable(w1, c) THEN FreeCall ELSE w1.calls[c]]]

FreeSlots(w) == {c \in Slots : w.calls[c].ready = "free"}
NewSlot(w) == CHOOSE c \in FreeSlots(w) : \A d \in FreeSlots(w) : c <= d

RemoveAt(s, i) == [j \in 1..(Len(s) - 1) |-> IF j < i THEN s[j] ELSE s[j + 1]]
IndexOf(s, x) == IF \E i \in 1..Len(s) : s[i] = x
                 THEN CHOOSE i \in 1..Len(s) : s[i] = x /\ \A j \in 1..(i-1) : s[j] # x
                 ELSE 0

\* ------------------------------------------------------------ event system
\* on('message', authListener)
on(w, c) == [w EXCEPT !.listeners = Append(w.listeners, c)]

\* off('message', authListener): splice the first occurrence out
off(w, c) ==
    LET i == IndexOf(w.listeners, c)
    IN  IF i > 0 THEN [w EXCEPT !.listeners = RemoveAt(w.listeners, i)] ELSE w

\* ---------------------------------------------------------------- heartbeat
\* startHeartbeat(): the handle of an interval still running is overwritten,
\* and nothing can clear that interval any more
startHeartbeat(w) ==
    [w EXCEPT !.heartbeatInterval = TRUE,
              !.orphans = IF w.heartbeatInterval /\ w.orphans < MaxOrphans
                          THEN w.orphans + 1 ELSE w.orphans]

stopHeartbeat(w) ==
    IF w.heartbeatInterval THEN [w EXCEPT !.heartbeatInterval = FALSE] ELSE w

\* ------------------------------------------------------------------ sending
\* WebSocket.send on slot s: throws while CONNECTING, writes while OPEN, is
\* silently discarded while CLOSING or CLOSED.
socketThrows(w, s) == w.calls[s].ready = "connecting"
socketWrites(w, s) == w.calls[s].ready = "open"

written(w, s, m) ==
    CASE m.type = "auth" ->
           [w EXCEPT !.calls[s].authRecv =
                         IF @ < MaxUnanswered THEN @ + 1 ELSE @]
      [] m.type = "audio_chunk" ->
           [w EXCEPT !.audioWire = Append(w.audioWire, m)]
      [] m.type = "ping" ->
           [w EXCEPT !.pingLog = w.pingLog \cup {w.isAuthenticated}]
      [] m.type = "message" ->
           [w EXCEPT !.sendLog.wrote = TRUE]
      [] m.type = "conversation_start" ->
           [w EXCEPT !.subs.conv = TRUE]
      [] OTHER -> w

\* send(message): the state after the call
send(w, m) ==
    IF ~w.isConnected \/ w.socket = 0 THEN w
    ELSE IF socketWrites(w, w.socket) THEN written(w, w.socket, m)
    ELSE w

\* send(message): the flag it returns
sendReturns(w, m) ==
    IF ~w.isConnected \/ w.socket = 0 THEN FALSE
    ELSE ~socketThrows(w, w.socket)

\* a client calls send(message)
clientSend(w, m) ==
    LET w1 == [w EXCEPT !.sendLog = [called |-> TRUE,
                                     authed |-> w.isAuthenticated,
                                     wrote |-> FALSE,
                                     returned |-> sendReturns(w, m)]]
    IN  send(w1, m)

\* the callback of a heartbeat interval
heartbeatTick(w) ==
    IF w.isConnected THEN send(w, [type |-> "ping"]) ELSE w

\* ------------------------------------------------------------- reconnection
\* history: count one more `what`; start the history afresh
record(w, what) ==
    IF w.hist.on THEN [w EXCEPT !.hist[what] = Inc(@)] ELSE w
afresh(w) == [w EXCEPT !.hist = [NoHistory EXCEPT !.on = w.hist.on]]

\* the catch block of attemptReconnect's timer callback
reconnectCatch(w) ==
    LET w1 == record(w, "failed")
    IN  IF w1.reconnectAttempts >= MAX_RECONNECT_ATTEMPTS
        THEN record(w1, "emitted")   \* emit('reconnectionFailed')
        ELSE w1

\* reject(error) of connect()'s promise, and the reaction of whoever awaits it
rejectConnect(w, c, why) ==
    IF w.calls[c].promise # "pending" THEN w
    ELSE LET w1 == [w EXCEPT !.calls[c].promise = why]
         IN  IF w.calls[c].viaTimer THEN reconnectCatch(w1) ELSE w1

\* resolve(true) of connect()'s promise
resolveConnect(w, c) ==
    IF w.calls[c].promise # "pending" THEN w
    ELSE [w EXCEPT !.calls[c].promise = "resolved"]

\* Math.pow(b, e) for a natural exponent
RECURSIVE Pow(_, _)
Pow(b, e) == IF e = 0 THEN 1 ELSE b * Pow(b, e - 1)

\* a backoff that doubles once too often
reconnectDelayDoubled(n) == RECONNECT_DELAY * Pow(2, n)

\* the delay attemptReconnect computes once it has incremented the counter to n
reconnectDelay(n) == RECONNECT_DELAY * Pow(2, n - 1)

\* attemptReconnect(authToken), up to the setTimeout
attemptReconnect(w, tok) ==
    LET n == w.reconnectAttempts + 1
        w1 == [w EXCEPT !.reconnectAttempts = n,
                        !.timers[tok] = w.timers[tok] + 1]
    IN  IF w.hist.on
        THEN [w1 EXCEPT !.hist.sched = n, !.hist.delay = reconnectDelay(n)]
        ELSE w1

\* connect(sessionId, authToken), up to the return of the promise
connect(w, sid, tok, byTimer) ==
    LET c == NewSlot(w)
    IN  [w EXCEPT !.sessionId = sid,
                  !.socket = c,
                  !.calls[c] = [FreeCall EXCEPT !.ready = "connecting",
                                                !.sid = sid,
                                                !.token = tok,
                                                !.viaTimer = byTimer,
                                                !.promise = "pending"]]

\* ----------------------------------------------------------- authentication
\* the .then of authenticate() in onopen; the store listens to 'connected'
authThen(w, c) ==
    LET w1 == startHeartbeat(w)
        w2 == [w1 EXCEPT !.store.websocketConnected = TRUE]
    IN  resolveConnect(w2, c)

\* authListener(data) of call c
authListener(w, c, type) ==
    IF type = "authenticated"
    THEN LET w1 == [w EXCEPT !.isAuthenticated = TRUE,
                             !.calls[c].auth = "resolved"]
         IN  authThen(off(afresh(w1), c), c)
    ELSE IF type = "auth_error"
    THEN LET w1 == [w EXCEPT !.calls[c].auth = "rejected"]
         IN  rejectConnect(off(w1, c), c, "rejected")
    ELSE w

\* emit('message', data): forEach over the live listener array
RECURSIVE emitFrom(_, _, _)
emitFrom(w, type, i) ==
    IF i > Len(w.listeners) THEN w
    ELSE emitFrom(authListener(w, w.listeners[i], type), type, i + 1)

emit(w, type) == emitFrom(w, type, 1)

\* handleMessage(event) for the handshake replies (the default branch)
handleMessage(w, type) == emit(w, type)

\* authenticate(authToken) of call c
authenticate(w, c) ==
    IF ~w.isConnected THEN rejectConnect(w, c, "rejected")
    ELSE LET w1 == on(w, c)
             w2 == send(w1, [type |-> "auth"])
         IN  [w2 EXCEPT !.calls[c].auth = "pending",
                        !.calls[c].authTimer = TRUE,
                        !.calls[c].sentOwn =
                            (w1.socket = c /\ socketWrites(w1, c))]

\* the setTimeout callback of authenticate()
authTimeout(w, c) ==
    LET w1 == [w EXCEPT !.calls[c].authTimer = FALSE]
    IN  IF ~w1.isAuthenticated
        THEN LET w2 == off(w1, c)
             IN  IF w2.calls[c].auth = "pending"
                 THEN rejectConnect([w2 EXCEPT !.calls[c].auth = "timeout"],
                                    c, "timeout")
                 ELSE w2
        ELSE w1

\* --------------------------------------------------------- socket handlers
onopen(w, c) ==
    LET w1 == [w EXCEPT !.calls[c].ready = "open",
                        !.isConnected = TRUE,
                        !.reconnectAttempts = 0]
    IN  authenticate(w1, c)

onerror(w, c) == rejectConnect(w, c, "rejected")

onclose(w, c, wasClean) ==
    LET w1 == [w EXCEPT !.calls[c].ready = "closed",
                        !.isConnected = FALSE,
                        !.isAuthenticated = FALSE]
        \* emit('disconnected'): the store's listener
        w2 == [stopHeartbeat(w1) EXCEPT !.store.websocketConnected = FALSE]
    IN  IF ~wasClean /\ w2.reconnectAttempts < MAX_RECONNECT_ATTEMPTS
        THEN attemptReconnect(w2, w2.calls[c].token)
        ELSE w2

\* disconnect()
disconnect(w) ==
    LET w1 == stopHeartbeat(w)
        w2 == IF w1.socket # 0 /\ w1.calls[w1.socket].ready = "open"
              THEN [w1 EXCEPT !.calls[w1.socket].ready = "closing"]
              ELSE w1
    IN  [w2 EXCEPT !.isConnected = FALSE,
                   !.isAuthenticated = FALSE,
                   !.sessionId = 0,
                   !.socket = 0]

\* ------------------------------------------------------ AudioCaptureService
\* the bound connection is the manager and it is Authenticated
Authenticated(w) == w.websocket = "wrapper" /\ w.isAuthenticated

Chunks == [rec : 1..MaxRecordings, seq : 1..MaxChunks]

\* the next chunk recorder r produces, in capture order
NextChunk(w, r) ==
    [rec |-> r,
     seq |-> 1 + Cardinality({i \in 1..Len(w.produced) : w.produced[i].rec = r})]

\* the last startRecording() call: was the stream held and was a recording
\* active when it was made, what it returned ("true", "false") or threw, and
\* did it leave the recorder and the recording as they were
NoStart == [called |-> FALSE, held |-> FALSE, busy |-> FALSE,
            result |-> "none", unchanged |-> TRUE]

NoCapture == [on |-> FALSE, active |-> {}, live |-> 0, cleaned |-> FALSE,
              justCleaned |-> FALSE, last |-> NoStart,
              sinks |-> FALSE, boundAt |-> {}, handedTo |-> {}]

\* initialize(): getUserMedia resolved with a stream, which replaces the one
\* held, if any, without its tracks being stopped
initialize(w) ==
    [w EXCEPT !.audioStream = TRUE,
              !.capture.live = IF w.capture.on THEN @ + 1 ELSE @,
              !.capture.justCleaned = FALSE]

\* setWebSocket(websocket)
setWebSocket(w, b) == [w EXCEPT !.websocket = b]

\* startRecording(), when it neither returns false nor throws
startRecording(w) ==
    [w EXCEPT !.mediaRecorder = "recording",
              !.recording = w.recording + 1,
              !.capture.active = @ \cup {w.recording + 1},
              !.isRecording = TRUE]

\* what a startRecording() call that took w0 to w1 with result res leaves in
\* the record of the last call
started(w0, w1, res) ==
    IF ~w0.capture.on THEN w1
    ELSE [w1 EXCEPT !.capture.justCleaned = FALSE,
                    !.capture.last =
                        [called |-> TRUE,
                         held |-> w0.audioStream,
                         busy |-> w0.capture.active # {},
                         result |-> res,
                         unchanged |-> /\ w1.mediaRecorder = w0.mediaRecorder
                                       /\ w1.recording = w0.recording
                                       /\ w1.isRecording = w0.isRecording
                                       /\ w1.capture.active = w0.capture.active
                                       /\ w1.flushing = w0.flushing]]

\* a startRecording() without the stream check
startRecordingCallStreamless(w) ==
    IF w.isRecording THEN started(w, w, "false")
    ELSE started(w, startRecording(w), "true")

\* a startRecording() without the isRecording check
startRecordingCallTwice(w) ==
    IF ~w.audioStream THEN started(w, w, "NotInitialized")
    ELSE started(w, startRecording(w), "true")

\* startRecording(): returns false while recording, throws 'Audio stream not
\* initialized' without a stream, else starts a recorder and returns true
startRecordingCall(w) ==
    IF w.isRecording THEN started(w, w, "false")
    ELSE IF ~w.audioStream THEN started(w, w, "NotInitialized")
    ELSE started(w, startRecording(w), "true")

\* stopRecording(): MediaRecorder.stop() queues the final dataavailable
stopRecording(w) ==
    IF ~w.isRecording \/ w.mediaRecorder = "null" THEN w
    ELSE [w EXCEPT !.mediaRecorder = "inactive",
                   !.flushing = w.flushing \cup {w.recording},
                   !.capture.active = @ \ {w.recording},
                   !.isRecording = FALSE]

\* handleAudioChunk(audioBlob), up to `await audioBlob.arrayBuffer()`
handleAudioChunk(w0, ch) ==
    LET w == IF ~w0.capture.sinks THEN w0
             ELSE [w0 EXCEPT !.capture.boundAt =
                                 @ \cup {[chunk |-> ch, sink |-> w0.websocket]}]
    IN  IF w.websocket = "null" THEN w
        ELSE [w EXCEPT !.reading = w.reading \cup {ch}]

\* mediaRecorder.ondataavailable(event) with a blob of size > 0
ondataavailable(w, r) ==
    LET ch == NextChunk(w, r)
        w1 == [w EXCEPT !.produced = Append(w.produced, ch),
                        !.authedChunks = IF Authenticated(w)
                                         THEN w.authedChunks \cup {ch}
                                         ELSE w.authedChunks]
    IN  handleAudioChunk(w1, ch)

\* the message handleAudioChunk builds: the encoded blob, and no chunk_id
\* (0 stands for the missing field)
audioMessage(w, ch) ==
    [type |-> "audio_chunk", chunk_id |-> 0, audio |-> ch]

\* chunk ch is given to the sink that this.websocket names after the await
handed(w, ch, sink) ==
    IF ~w.capture.sinks THEN w
    ELSE [w EXCEPT !.capture.handedTo = @ \cup {[chunk |-> ch, sink |-> sink]}]

\* handleAudioChunk after the await.  The manager has no readyState field, so
\* `this.websocket.readyState === WebSocket.OPEN` is false for it and the
\* message goes through its send(); a raw WebSocket that is open gets the
\* message as a JSON string.
handleAudioChunkResume(w, ch) ==
    LET w1 == [w EXCEPT !.reading = w.reading \ {ch}]
    IN  IF w1.websocket = "wrapper"
        THEN send(handed(w1, ch, "wrapper"), audioMessage(w1, ch))
        ELSE handed(w1, ch, w1.websocket)

\* cleanup()
cleanup(w) ==
    LET w1 == IF w.mediaRecorder # "null" /\ w.isRecording
              THEN stopRecording(w) ELSE w
        w2 == IF ~w.capture.on THEN w1
              ELSE [w1 EXCEPT !.capture.cleaned = TRUE,
                              !.capture.justCleaned = TRUE,
                              !.capture.live = IF w.audioStream THEN @ - 1 ELSE @]
    IN  [w2 EXCEPT !.audioStream = FALSE]

\* ------------------------------------------------------------ SessionStore
Types == {"toefl", "ielts"}
totalTasksOfSwapped(t) == IF t = "toefl" THEN 3 ELSE 4
totalTasksOf(t) == IF t = "toefl" THEN 4 ELSE 3

\* the testState of the constructor and of clearSessions()
InitialTestState ==
    [ type |-> "null", currentTask |-> 1, totalTasks |-> 4,
      phase |-> "preparation", recordings |-> << >>,
      scores |-> FALSE, endTime |-> FALSE ]

\* the last inbound event passed on to the store's listeners, with the
\* session status it reported
NoEvent == [event |-> "none", reported |-> "none"]

InitialStore ==
    [ currentSession |-> 0, sessionStatus |-> "null",
      testState |-> InitialTestState,
      isLoading |-> FALSE, error |-> "null", websocketConnected |-> FALSE,
      notified |-> NoEvent ]

NoSubs == [ok |-> 0, failed |-> FALSE, nexts |-> 0, conv |-> FALSE]

\* An operation slot holding no call.
NoOp ==
    [ kind     |-> "free",   \* the method a client called
      pc       |-> "free",   \* the await it is suspended on, or "done"
      testType |-> "null",   \* the testType argument
      taskArg  |-> 0,        \* startTest's taskNumber argument (0: null)
      audio    |-> FALSE,    \* submitResponse's audioFile argument is given
      slot     |-> 0,        \* the connect() call a createSession awaits
      sid      |-> 0,        \* the session id passed to the API call in flight
      task     |-> 0,        \* the task number passed to the API call in flight
      phaseAtCall |-> "none",\* phase when the method was called
      taskAtCall  |-> 0,     \* currentTask when the method was called
      uploads  |-> 0,        \* upload calls made
      submits  |-> 0,        \* task-submission calls made
      scorings |-> 0,        \* scoring calls made
      result   |-> "none" ]  \* what the method returned: "success" or the error

Ops == 1..MaxOps
Available(w) == {i \in Ops : w.ops[i].pc \in {"free", "done"}}
NewOp(w) == CHOOSE i \in Available(w) : \A j \in Available(w) : i <= j

setLoading(w, b) == [w EXCEPT !.store.isLoading = b]
setError(w, e) == [w EXCEPT !.store.error = e]
clearError(w) == [w EXCEPT !.store.error = "null"]

\* the method of operation i returns res to its caller
return(w, i, res) ==
    LET w1 == [w EXCEPT !.ops[i] = [NoOp EXCEPT !.kind = w.ops[i].kind,
                                                !.pc = "done",
                                                !.phaseAtCall = w.ops[i].phaseAtCall,
                                                !.uploads = w.ops[i].uploads,
                                                !.submits = w.ops[i].submits,
                                                !.scorings = w.ops[i].scorings,
                                                !.result = res]]
    IN  IF w.ops[i].kind = "submitResponse"
        THEN IF res = "success"
             THEN [w1 EXCEPT !.subs.ok = @ + 1]
             ELSE [w1 EXCEPT !.subs.failed = TRUE]
        ELSE w1

\* catch (error) { setError(error.message); return {success: false, ...} }
\* finally { setLoading(false) }
catch(w, i, msg) == return(setLoading(setError(w, msg), FALSE), i, msg)

\* return {success: true, ...}; finally { setLoading(false) }
succeed(w, i) == return(setLoading(w, FALSE), i, "success")

\* startTest from `let result` on: the call of the start-task API
startCall(w, i) ==
    IF w.store.currentSession = 0 THEN catch(w, i, "TypeError")
    ELSE [w EXCEPT !.ops[i].pc = "start.api",
                   !.ops[i].sid = w.store.currentSession,
                   !.ops[i].task = IF w.ops[i].taskArg # 0 THEN w.ops[i].taskArg
                                   ELSE w.store.testState.currentTask]

\* createSession returns success: to its caller, or into startTest
createReturn(w, i) ==
    LET w1 == setLoading(w, FALSE)
    IN  IF w.ops[i].kind = "createSession" THEN return(w1, i, "success")
        ELSE startCall(w1, i)

\* loadUserSessions(), up to its await
loadUserSessions(w, i) ==
    IF ~w.loggedIn THEN createReturn(w, i)
    ELSE [w EXCEPT !.ops[i].pc = "create.load"]

\* a createSession() without the isLoggedIn() check
createSessionUnchecked(w, i, testType) ==
    LET w1 == clearError(setLoading(w, TRUE))
        w2 == [w1 EXCEPT !.ops[i].testType = testType]
    IN  IF testType = "null" THEN catch(w2, i, "TypeError")
        ELSE [w2 EXCEPT !.ops[i].pc = "create.api"]

\* createSession(testType, mode), up to its first await
createSession(w, i, testType) ==
    LET w1 == clearError(setLoading(w, TRUE))
        w2 == [w1 EXCEPT !.ops[i].testType = testType]
    IN  IF ~w.loggedIn THEN catch(w2, i, "Authentication required")
        ELSE IF testType = "null" THEN catch(w2, i, "TypeError")
        ELSE [w2 EXCEPT !.ops[i].pc = "create.api"]

\* a createSession() whose success branch leaves currentTask as it is
createReplyKeepsTask(w, i, ok, websocket_url) ==
    IF ~ok THEN catch(w, i, "backend")
    ELSE LET id == w.created + 1
             t  == w.ops[i].testType
             w1 == [w EXCEPT !.created = id,
                             !.subs = NoSubs,
                             !.store.currentSession = id,
                             !.store.sessionStatus = "created",
                             !.store.testState =
                                 [@ EXCEPT !.type = t,
                                           !.totalTasks = totalTasksOf(t),
                                           !.phase = "preparation",
                                           !.recordings = << >>,
                                           !.scores = FALSE]]
         IN  IF websocket_url /\ w.loggedIn
             THEN LET w2 == afresh(connect(w1, id, TokenOf(1), FALSE))
                  IN  [w2 EXCEPT !.userClosed = FALSE,
                                 !.ops[i].pc = "create.ws",
                                 !.ops[i].slot = w2.socket]
             ELSE loadUserSessions(w1, i)

\* createSession after `await api.createSession(...)`
createReply(w, i, ok, websocket_url) ==
    IF ~ok THEN catch(w, i, "backend")
    ELSE LET id == w.created + 1
             t  == w.ops[i].testType
             w1 == [w EXCEPT !.created = id,
                             !.subs = NoSubs,
                             !.store.currentSession = id,
                             !.store.sessionStatus = "created",
                             !.store.testState =
                                 [@ EXCEPT !.type = t,
                                           !.currentTask = 1,
                                           !.totalTasks = totalTasksOf(t),
                                           !.phase = "preparation",
                                           !.recordings = << >>,
                                           !.scores = FALSE]]
         IN  IF websocket_url /\ w.loggedIn
             THEN LET w2 == afresh(connect(w1, id, TokenOf(1), FALSE))
                  IN  [w2 EXCEPT !.userClosed = FALSE,
                                 !.ops[i].pc = "create.ws",
                                 !.ops[i].slot = w2.socket]
             ELSE loadUserSessions(w1, i)

\* createSession after `await websocket.connect(...)`, however it settled
createConnected(w, i) == loadUserSessions(w, i)

\* createSession after `await this.loadUserSessions()`
loadReply(w, i) == createReturn(w, i)

\* startTest(testType, mode, taskNumber), up to its first await
startTest(w, i, testType, taskNumber) ==
    LET w1 == setLoading(w, TRUE)
        w2 == [w1 EXCEPT !.ops[i].testType = testType,
                         !.ops[i].taskArg = taskNumber]
    IN  IF w2.store.currentSession = 0
        THEN createSession(w2, i, testType)
        ELSE startCall(w2, i)

\* startConversation(testType, taskType)
startConversation(w) ==
    IF ~w.isAuthenticated THEN w
    ELSE send(w, [type |-> "conversation_start"])

\* startTest after the await of the start-task API
startReply(w0, i, ok) ==
    LET w == [w0 EXCEPT !.subs.conv = FALSE]
    IN  IF ~ok THEN catch(w, i, "backend")
        ELSE LET w1 == [w EXCEPT !.store.testState.phase = "preparation"]
                 w2 == IF w1.store.websocketConnected
                       THEN startConversation(w1) ELSE w1
             IN  succeed(w2, i)

\* completeTest(), up to its await
completeTest(w, i) ==
    LET w1 == setLoading(w, TRUE)
    IN  IF w1.store.currentSession = 0 THEN catch(w1, i, "No active session")
        ELSE [w1 EXCEPT !.ops[i].pc = "score",
                        !.ops[i].sid = w1.store.currentSession,
                        !.ops[i].scorings = @ + 1]

\* a completeTest() that stamps endTime before it looks at the result
scoreReplyStampsFirst(w, i, ok) ==
    LET w1 == [w EXCEPT !.store.testState.endTime = TRUE]
    IN  IF ~ok THEN catch(w1, i, "backend")
        ELSE succeed([w1 EXCEPT !.store.testState.scores = TRUE,
                                !.store.testState.phase = "completed"], i)

\* completeTest after the await of the scoring API
scoreReply(w, i, ok) ==
    IF ~ok THEN catch(w, i, "backend")
    ELSE succeed([w EXCEPT !.store.testState.scores = TRUE,
                           !.store.testState.phase = "completed",
                           !.store.testState.endTime = TRUE], i)

\* a nextTask() that increments whatever the index is
nextTaskUnguarded(w0, i) ==
    LET w == [w0 EXCEPT !.subs.nexts =
                       IF @ + 1 < w0.store.testState.totalTasks THEN @ + 1 ELSE @]
        ts == w.store.testState
        w1 == [w EXCEPT !.store.testState.currentTask = @ + 1,
                        !.store.testState.phase = "preparation"]
    IN  startTest(w1, i, ts.type, ts.currentTask + 1)

\* a nextTask() that leaves phase as it is
nextTaskKeepsPhase(w0, i) ==
    LET w == [w0 EXCEPT !.subs.nexts =
                       IF @ + 1 < w0.store.testState.totalTasks THEN @ + 1 ELSE @]
        ts == w.store.testState
    IN  IF ts.currentTask < ts.totalTasks
        THEN LET w1 == [w EXCEPT !.store.testState.currentTask = @ + 1]
             IN  startTest(w1, i, ts.type, ts.currentTask + 1)
        ELSE completeTest(w, i)

\* nextTask(), up to the first await
nextTask(w0, i) ==
    LET w == [w0 EXCEPT !.subs.nexts =
                       IF @ + 1 < w0.store.testState.totalTasks THEN @ + 1 ELSE @]
        ts == w.store.testState
    IN  IF ts.currentTask < ts.totalTasks
        THEN LET w1 == [w EXCEPT !.store.testState.currentTask = @ + 1,
                                 !.store.testState.phase = "preparation"]
             IN  startTest(w1, i, ts.type, ts.currentTask + 1)
        ELSE completeTest(w, i)

\* submitResponse from `const submitData` on: the task-submission call
submitCall(w, i) ==
    IF w.store.currentSession = 0 THEN catch(w, i, "TypeError")
    ELSE [w EXCEPT !.ops[i].pc = "submit",
                   !.ops[i].sid = w.store.currentSession,
                   !.ops[i].task = w.store.testState.currentTask,
                   !.ops[i].submits = @ + 1]

\* submitResponse(audioFile, responseData), up to its first await
submitResponse(w, i, audioFile) ==
    LET w1 == setLoading(w, TRUE)
        w2 == [w1 EXCEPT !.ops[i].audio = audioFile]
    IN  IF w2.store.currentSession = 0 THEN catch(w2, i, "No active session")
        ELSE IF audioFile
        THEN [w2 EXCEPT !.ops[i].pc = "upload",
                        !.ops[i].sid = w2.store.currentSession,
                        !.ops[i].task = w2.store.testState.currentTask,
                        !.ops[i].uploads = @ + 1]
        ELSE submitCall(w2, i)

\* an upload reply handled with the submission call made before the check
uploadReplySubmitsFirst(w, i, ok) ==
    IF ok THEN submitCall(w, i)
    ELSE catch([w EXCEPT !.ops[i].submits = @ + 1], i, "Audio upload failed")

\* a submission reply handled with the Recording pushed before the check
submitReplyPushesFirst(w, i, ok) ==
    LET rec == [task |-> w.store.testState.currentTask]
        w1 == [w EXCEPT !.store.testState.recordings = Append(@, rec)]
    IN  IF ok THEN succeed(w1, i) ELSE catch(w1, i, "backend")

\* an upload reply handled with one more upload after a failure
uploadReplyRetries(w, i, ok) ==
    IF ok THEN submitCall(w, i)
    ELSE IF w.ops[i].uploads < 2 THEN [w EXCEPT !.ops[i].uploads = @ + 1]
    ELSE catch(w, i, "Audio upload failed")

\* submitResponse after `await api.uploadAudio(...)`
uploadReply(w, i, ok) ==
    IF ~ok THEN catch(w, i, "Audio upload failed")
    ELSE submitCall(w, i)

\* submitResponse after the await of the task-submission API
submitReply(w, i, ok) ==
    IF ~ok THEN catch(w, i, "backend")
    ELSE LET rec == [task |-> w.store.testState.currentTask]
         IN  succeed([w EXCEPT !.store.testState.recordings = Append(@, rec)], i)

\* clearSessions()
clearSessions(w) ==
    [w EXCEPT !.store.currentSession = 0,
              !.store.sessionStatus = "null",
              !.store.testState = InitialTestState,
              !.subs = NoSubs]

\* notifyListeners(event, data) for the inbound events
notifyListeners(w, event, reported) ==
    [w EXCEPT !.store.notified = [event |-> event, reported |-> reported]]

\* handleSessionUpdate(data)
handleSessionUpdate(w, data) ==
    IF w.store.currentSession # 0 /\ data.session_id = w.store.currentSession
    THEN notifyListeners(w, "sessionUpdated", data.status)
    ELSE w

\* a handleTranscription(data) that moves the test on
handleTranscriptionMoves(w, data) ==
    notifyListeners([w EXCEPT !.store.testState.phase = "response"],
                    "transcriptionReceived", "none")

handleTranscription(w, data) == notifyListeners(w, "transcriptionReceived", "none")
handleAIResponse(w, data) == notifyListeners(w, "aiResponseReceived", "none")
handleRealTimeFeedback(w, data) == notifyListeners(w, "realTimeFeedback", "none")

\* handleMessage(event) for the messages the manager passes on as events of
\* their own, each to the listener the store registered for it
handleInbound(w, data) ==
    CASE data.type = "session_updated" -> handleSessionUpdate(w, data)
      [] data.type = "transcription" -> handleTranscription(w, data)
      [] data.type = "ai_response" -> handleAIResponse(w, data)
      [] data.type = "real_time_feedback" -> handleRealTimeFeedback(w, data)
      [] OTHER -> w

\* the continuations of the createSession calls whose connect() has settled
RECURSIVE resume(_)
resume(w) ==
    LET ready == {i \in Ops : /\ w.ops[i].pc = "create.ws"
                              /\ w.calls[w.ops[i].slot].promise # "pending"}
    IN  IF ready = {} THEN w
        ELSE resume(createConnected(w, CHOOSE i \in ready : \A j \in ready : i <= j))

\* a client's call of a store method is operation i from now on
call(w, i, kind) ==
    [w EXCEPT !.ops[i] = [NoOp EXCEPT !.kind = kind,
                                      !.phaseAtCall = w.store.testState.phase,
                                      !.taskAtCall = w.store.testState.currentTask]]

\* ------------------------------------------------------------------ actions
Apply(w0) ==
    LET w == Collect(resume(w0))
    IN  /\ socket' = w.socket
        /\ sessionId' = w.sessionId
        /\ isConnected' = w.isConnected
        /\ isAuthenticated' = w.isAuthenticated
        /\ reconnectAttempts' = w.reconnectAttempts
        /\ heartbeatInterval' = w.heartbeatInterval
        /\ listeners' = w.listeners
        /\ calls' = w.calls
        /\ timers' = w.timers
        /\ orphans' = w.orphans
        /\ websocket' = w.websocket
        /\ isRecording' = w.isRecording
        /\ audioStream' = w.audioStream
        /\ mediaRecorder' = w.mediaRecorder
        /\ recording' = w.recording
        /\ flushing' = w.flushing
        /\ produced' = w.produced
        /\ reading' = w.reading
        /\ audioWire' = w.audioWire
        /\ authedChunks' = IF Authenticated(w) THEN w.authedChunks
                           ELSE w.authedChunks \ w.reading
        /\ hist' = w.hist
        /\ userClosed' = w.userClosed
        /\ sendLog' = w.sendLog
        /\ pingLog' = w.pingLog
        /\ store' = w.store
        /\ ops' = w.ops
        /\ loggedIn' = w.loggedIn
        /\ created' = w.created
        /\ subs' = w.subs
        /\ capture' = w.capture
        /\ script' = w.script

TimerCount(w) ==
    LET RECURSIVE Sum(_)
        Sum(S) == IF S = {} THEN 0
                  ELSE LET t == CHOOSE x \in S : TRUE
                       IN  w.timers[t] + Sum(S \ {t})
    IN  Sum(Sessions)

\* the state may schedule one more reconnection timer
TimerRoom(w) == TimerCount(w) < MaxTimers
WouldReconnect(w, wasClean) ==
    ~wasClean /\ w.reconnectAttempts < MAX_RECONNECT_ATTEMPTS

\* a caller invokes connect(sessionId, authToken)
Connect(s) ==
    /\ FreeSlots(World) # {}
    /\ Apply([afresh(connect(World, s, TokenOf(s), FALSE))
                 EXCEPT !.userClosed = FALSE])

\* a caller invokes disconnect()
Disconnect ==
    LET w1 == afresh(disconnect(World))
    IN  Apply([w1 EXCEPT !.userClosed = TRUE])

\* the transport of call c opens
SocketOpen(c) ==
    /\ calls[c].ready = "connecting"
    /\ Apply(onopen(World, c))

\* the backend answers an auth message it received on socket c
AuthReply(c, type) ==
    /\ calls[c].ready = "open"
    /\ calls[c].authRecv > 0
    /\ LET w1 == [World EXCEPT !.calls[c].authRecv = @ - 1,
                               !.calls[c].reply = type]
       IN  Apply(handleMessage(w1, type))

\* the transport of call c fails: an error event, then a non-clean close
SocketFail(c) ==
    /\ calls[c].ready \in {"connecting", "open"}
    /\ WouldReconnect(World, FALSE) => TimerRoom(World)
    /\ Apply(onclose(onerror(World, c), c, FALSE))

\* the transport of call c closes without an error event
SocketClose(c, wasClean) ==
    /\ calls[c].ready \in {"open", "closing"}
    /\ WouldReconnect(World, wasClean) => TimerRoom(World)
    /\ Apply(onclose(World, c, wasClean))

\* a reconnection timer that captured token tok fires
ReconnectTimer(tok) ==
    /\ timers[tok] > 0
    /\ FreeSlots(World) # {}
    /\ LET w1 == record([World EXCEPT !.timers[tok] = @ - 1], "attempts")
       IN  Apply(connect(w1, w1.sessionId, tok, TRUE))

\* the 10 s timeout of call c's authenticate() fires
AuthTimeout(c) ==
    /\ calls[c].authTimer
    /\ Apply(authTimeout(World, c))

\* a client calls send(message) on the manager
Send ==
    LET w1 == clientSend(World, [type |-> "message"])
    IN  Apply(w1)

\* a heartbeat interval fires: the one this.heartbeatInterval holds, or one
\* whose handle was overwritten
HeartbeatTick ==
    /\ heartbeatInterval \/ orphans > 0
    /\ Apply(heartbeatTick(World))

ConnNext ==
    \/ Connect(1)
    \/ Disconnect
    \/ \E c \in Slots : SocketOpen(c)
    \/ \E c \in Slots, type \in {"authenticated", "auth_error"} : AuthReply(c, type)
    \/ \E c \in Slots : SocketFail(c)
    \/ \E c \in Slots, wasClean \in BOOLEAN : SocketClose(c, wasClean)
    \/ \E tok \in Sessions : ReconnectTimer(tok)
    \/ \E c \in Slots : AuthTimeout(c)

\* ---- the capture pipeline's tasks
\* initialize(); the user grants or refuses the microphone
Initialize(granted) ==
    /\ granted => capture.live < MaxStreams
    /\ LET w1 == IF granted THEN initialize(World)
                 ELSE [World EXCEPT !.capture.justCleaned = FALSE]
       IN  Apply(w1)

\* setWebSocket(websocket)
SetWebSocket(b) ==
    LET w1 == setWebSocket(World, b)
    IN  Apply(w1)

\* startRecording(): returns false while recording, throws without a stream
StartRecording ==
    /\ (audioStream /\ ~isRecording) => recording < MaxRecordings
    /\ Apply(startRecordingCall(World))

StopRecording ==
    LET w1 == stopRecording(World)
    IN  Apply(w1)

Cleanup ==
    LET w1 == cleanup(World)
    IN  Apply(w1)

\* the 1 s time slice of the running recorder elapses
DataAvailable(empty) ==
    /\ mediaRecorder = "recording"
    /\ Len(produced) < MaxChunks
    /\ Apply(IF empty THEN World ELSE ondataavailable(World, recording))

\* the final dataavailable of stopped recorder r
FinalData(r, empty) ==
    /\ r \in flushing
    /\ empty \/ Len(produced) < MaxChunks
    /\ LET w1 == [World EXCEPT !.flushing = flushing \ {r}]
       IN  Apply(IF empty THEN w1 ELSE ondataavailable(w1, r))

\* the blob read of chunk ch completes
BlobRead(ch) ==
    /\ ch \in reading
    /\ Apply(handleAudioChunkResume(World, ch))

AudioNext ==
    \/ \E granted \in BOOLEAN : Initialize(granted)
    \/ \E b \in {"null", "wrapper"} : SetWebSocket(b)
    \/ StartRecording
    \/ StopRecording
    \/ Cleanup
    \/ \E empty \in BOOLEAN : DataAvailable(empty)
    \/ \E r \in 1..MaxRecordings, empty \in BOOLEAN : FinalData(r, empty)
    \/ \E ch \in Chunks : BlobRead(ch)

InitBase ==
    /\ socket = 0
    /\ sessionId = 0
    /\ isConnected = FALSE
    /\ isAuthenticated = FALSE
    /\ reconnectAttempts = 0
    /\ heartbeatInterval = FALSE
    /\ listeners = << >>
    /\ calls = [c \in Slots |-> FreeCall]
    /\ timers = [t \in Sessions |-> 0]
    /\ orphans = 0
    /\ websocket = "null"
    /\ isRecording = FALSE
    /\ audioStream = FALSE
    /\ mediaRecorder = "null"
    /\ recording = 0
    /\ flushing = {}
    /\ produced = << >>
    /\ reading = {}
    /\ audioWire = << >>
    /\ authedChunks = {}
    /\ userClosed = FALSE
    /\ sendLog = NoSend
    /\ pingLog = {}
    /\ store = InitialStore
    /\ ops = [i \in Ops |-> NoOp]
    /\ loggedIn = FALSE
    /\ created = 0
    /\ subs = NoSubs

NoScript == [pc |-> "off", task |-> 0, type |-> "null"]

Init ==
    InitBase /\ hist = NoHistory /\ script = NoScript /\ capture = NoCapture

\* the connection manager alone, used for one session
SpecConn == Init /\ [][ConnNext]_vars

\* one connect(), then only the transport, the backend and the timers act;
\* the reconnection history is recorded
InitReconnect ==
    /\ InitBase
    /\ hist = [NoHistory EXCEPT !.on = TRUE]
    /\ script = NoScript
    /\ capture = NoCapture

FirstConnect == socket = 0 /\ Connect(1)

ReconnectNext ==
    \/ FirstConnect
    \/ \E c \in Slots : SocketOpen(c)
    \/ \E c \in Slots, type \in {"authenticated", "auth_error"} : AuthReply(c, type)
    \/ \E c \in Slots : SocketFail(c)
    \/ \E c \in Slots, wasClean \in BOOLEAN : SocketClose(c, wasClean)
    \/ \E tok \in Sessions : ReconnectTimer(tok)
    \/ \E c \in Slots : AuthTimeout(c)

SpecReconnect == InitReconnect /\ [][ReconnectNext]_vars

\* a caller moves between sessions while transports fail and timers fire
SessionsNext ==
    \/ \E s \in Sessions : Connect(s)
    \/ Disconnect
    \/ \E c \in Slots : SocketOpen(c)
    \/ \E c \in Slots : AuthReply(c, "authenticated")
    \/ \E c \in Slots : SocketFail(c)
    \/ \E tok \in Sessions : ReconnectTimer(tok)

SpecSessions == Init /\ [][SessionsNext]_vars

\* one connection at a time, with clients that call send() in any state
SendNext ==
    \/ FirstConnect
    \/ Disconnect
    \/ Send
    \/ \E c \in Slots : SocketOpen(c)
    \/ \E c \in Slots, type \in {"authenticated", "auth_error"} : AuthReply(c, type)
    \/ \E c \in Slots : SocketClose(c, TRUE)
    \/ \E c \in Slots : AuthTimeout(c)

SpecSend == Init /\ [][SendNext]_vars

\* the manager with its heartbeat intervals
HeartbeatNext ==
    \/ Connect(1)
    \/ Disconnect
    \/ HeartbeatTick
    \/ \E c \in Slots : SocketOpen(c)
    \/ \E c \in Slots : AuthReply(c, "authenticated")
    \/ \E c \in Slots : SocketFail(c)
    \/ \E c \in Slots : SocketClose(c, TRUE)
    \/ \E tok \in Sessions : ReconnectTimer(tok)

SpecHeartbeat == Init /\ [][HeartbeatNext]_vars

\* ---- the store's tasks
\* the user logs in / logs out (auth 'unauthenticated': clearSessions)
Login ==
    /\ ~loggedIn
    /\ Apply([World EXCEPT !.loggedIn = TRUE])

Logout ==
    /\ loggedIn
    /\ Apply(clearSessions([World EXCEPT !.loggedIn = FALSE]))

\* a client calls a method of the store
CreateSession(t) ==
    /\ Available(World) # {}
    /\ LET i == NewOp(World)
       IN  Apply(createSession(call(World, i, "createSession"), i, t))

StartTest(t) ==
    /\ Available(World) # {}
    /\ LET i == NewOp(World)
       IN  Apply(startTest(call(World, i, "startTest"), i, t, 0))

SubmitResponse(audioFile) ==
    /\ Available(World) # {}
    /\ LET i == NewOp(World)
       IN  Apply(submitResponse(call(World, i, "submitResponse"), i, audioFile))

NextTask ==
    /\ Available(World) # {}
    /\ LET i == NewOp(World)
       IN  Apply(nextTask(call(World, i, "nextTask"), i))

CompleteTest ==
    /\ Available(World) # {}
    /\ LET i == NewOp(World)
       IN  Apply(completeTest(call(World, i, "completeTest"), i))

\* the backend's replies
CreateReply(i, ok, websocket_url) ==
    /\ ops[i].pc = "create.api"
    /\ ok => created < MaxCreated
    /\ (ok /\ websocket_url) => FreeSlots(World) # {}
    /\ Apply(createReply(World, i, ok, websocket_url))

LoadReply(i) ==
    /\ ops[i].pc = "create.load"
    /\ Apply(loadReply(World, i))

StartReply(i, ok) ==
    /\ ops[i].pc = "start.api"
    /\ Apply(startReply(World, i, ok))

UploadReply(i, ok) ==
    /\ ops[i].pc = "upload"
    /\ Apply(uploadReply(World, i, ok))

SubmitReply(i, ok) ==
    /\ ops[i].pc = "submit"
    /\ ok => Len(store.testState.recordings) < MaxKept
    /\ Apply(submitReply(World, i, ok))

ScoreReply(i, ok) ==
    /\ ops[i].pc = "score"
    /\ Apply(scoreReply(World, i, ok))

\* what the backend may send besides the handshake replies
Statuses == {"active", "completed"}
InboundMessages ==
    [type : {"session_updated"}, session_id : 1..MaxCreated, status : Statuses]
    \cup [type : {"transcription", "ai_response", "real_time_feedback"},
          session_id : {0}, status : {"none"}]

\* a message of the backend arrives on socket c
Inbound(c, data) ==
    /\ calls[c].ready = "open"
    /\ Apply(handleInbound(World, data))

\* no operation of the store is in flight
Idle == Available(World) = Ops

\* a client that waits for each call to return before it makes the next
AwaitedCreateSession(t) == Idle /\ CreateSession(t)
AwaitedStartTest(t) == Idle /\ StartTest(t)
AwaitedSubmitResponse(audioFile) == Idle /\ SubmitResponse(audioFile)
AwaitedNextTask == Idle /\ NextTask
AwaitedCompleteTest == Idle /\ CompleteTest

\* the store, one call at a time, with a backend that offers no voice socket
StoreNext ==
    \/ Login
    \/ Logout
    \/ \E t \in Types : AwaitedCreateSession(t)
    \/ \E t \in Types : AwaitedStartTest(t)
    \/ \E audioFile \in BOOLEAN : AwaitedSubmitResponse(audioFile)
    \/ AwaitedNextTask
    \/ AwaitedCompleteTest
    \/ \E i \in Ops, ok \in BOOLEAN : CreateReply(i, ok, FALSE)
    \/ \E i \in Ops : LoadReply(i)
    \/ \E i \in Ops, ok \in BOOLEAN : StartReply(i, ok)
    \/ \E i \in Ops, ok \in BOOLEAN : UploadReply(i, ok)
    \/ \E i \in Ops, ok \in BOOLEAN : SubmitReply(i, ok)
    \/ \E i \in Ops, ok \in BOOLEAN : ScoreReply(i, ok)

SpecStore == Init /\ [][StoreNext]_vars

\* submissions in flight together, sessions created and cleared under them
SubmitNext ==
    \/ Login
    \/ Logout
    \/ CreateSession("ielts")
    \/ \E audioFile \in BOOLEAN : SubmitResponse(audioFile)
    \/ \E i \in Ops, ok \in BOOLEAN : CreateReply(i, ok, FALSE)
    \/ \E i \in Ops : LoadReply(i)
    \/ \E i \in Ops, ok \in BOOLEAN : UploadReply(i, ok)
    \/ \E i \in Ops, ok \in BOOLEAN : SubmitReply(i, ok)

SpecSubmit == Init /\ [][SubmitNext]_vars

\* sessions created, advanced, completed and cleared, with calls in flight
\* together
TasksNext ==
    \/ Login
    \/ Logout
    \/ \E t \in Types : CreateSession(t)
    \/ NextTask
    \/ \E i \in Ops : CreateReply(i, TRUE, FALSE)
    \/ \E i \in Ops : LoadReply(i)
    \/ \E i \in Ops, ok \in BOOLEAN : StartReply(i, ok)
    \/ \E i \in Ops, ok \in BOOLEAN : ScoreReply(i, ok)

SpecTasks == Init /\ [][TasksNext]_vars

\* One practice run, of the four TOEFL tasks or of the three IELTS parts: a
\* client creates the session and then, for each task, starts the task and submits a response, with nextTask()
\* between tasks and completeTest() at the end, awaiting every call.  The
\* store has no method that begins the response; nothing of the store runs
\* between the start of a task and the submission.
RunCreateSession(t) ==
    /\ script.pc = "create"
    /\ Idle
    /\ loggedIn
    /\ Apply(createSession(call([World EXCEPT !.script = [pc |-> "start", task |-> 1,
                                                           type |-> t]],
                                 1, "createSession"), 1, t))

RunStartTest ==
    /\ script.pc = "start"
    /\ Idle
    /\ Apply(startTest(call([World EXCEPT !.script.pc = "submit"], 1, "startTest"),
                        1, script.type, 0))

RunSubmitResponse(audioFile) ==
    /\ script.pc = "submit"
    /\ Idle
    /\ Apply(submitResponse(
                 call([World EXCEPT !.script.pc =
                                        IF script.task < (IF script.type = "toefl" THEN 4 ELSE 3)
                                        THEN "next" ELSE "complete"],
                      1, "submitResponse"), 1, audioFile))

RunNextTask ==
    /\ script.pc = "next"
    /\ Idle
    /\ Apply(nextTask(call([World EXCEPT !.script = [script EXCEPT !.pc = "start",
                                                                !.task = @ + 1]],
                            1, "nextTask"), 1))

RunCompleteTest ==
    /\ script.pc = "complete"
    /\ Idle
    /\ Apply(completeTest(call([World EXCEPT !.script.pc = "end"],
                                1, "completeTest"), 1))

\* the task-submission API succeeds
RunSubmitReply(i) ==
    /\ ops[i].pc = "submit"
    /\ Apply(submitReply(World, i, TRUE))

\* every external call succeeds; the backend may offer a voice socket, which
\* then opens and authenticates
RunNext ==
    \/ Login
    \/ \E t \in Types : RunCreateSession(t)
    \/ RunStartTest
    \/ \E audioFile \in BOOLEAN : RunSubmitResponse(audioFile)
    \/ RunNextTask
    \/ RunCompleteTest
    \/ \E i \in Ops, websocket_url \in BOOLEAN : CreateReply(i, TRUE, websocket_url)
    \/ \E i \in Ops : LoadReply(i)
    \/ \E i \in Ops : StartReply(i, TRUE)
    \/ \E i \in Ops : UploadReply(i, TRUE)
    \/ \E i \in Ops : RunSubmitReply(i)
    \/ \E i \in Ops : ScoreReply(i, TRUE)
    \/ \E c \in Slots : SocketOpen(c)
    \/ \E c \in Slots : AuthReply(c, "authenticated")

InitRun ==
    /\ InitBase
    /\ hist = NoHistory
    /\ script = [NoScript EXCEPT !.pc = "create"]
    /\ capture = NoCapture

SpecRun == InitRun /\ [][RunNext]_vars

\* tasks started while sessions are created, with the voice socket of each
\* session connected by the store
StartNext ==
    \/ Login
    \/ CreateSession("toefl")
    \/ StartTest("toefl")
    \/ \E i \in Ops, websocket_url \in BOOLEAN : CreateReply(i, TRUE, websocket_url)
    \/ \E i \in Ops : LoadReply(i)
    \/ \E i \in Ops, ok \in BOOLEAN : StartReply(i, ok)
    \/ \E c \in Slots : SocketOpen(c)
    \/ \E c \in Slots : AuthReply(c, "authenticated")
    \/ \E c \in Slots : SocketClose(c, TRUE)

SpecStart == Init /\ [][StartNext]_vars

\* a session with its voice socket, over which the backend sends events
\* while the test goes on
InboundNext ==
    \/ Login
    \/ Logout
    \/ AwaitedCreateSession("ielts")
    \/ AwaitedNextTask
    \/ \E i \in Ops : CreateReply(i, TRUE, TRUE)
    \/ \E i \in Ops : LoadReply(i)
    \/ \E i \in Ops : StartReply(i, TRUE)
    \/ \E i \in Ops, ok \in BOOLEAN : ScoreReply(i, ok)
    \/ \E c \in Slots : SocketOpen(c)
    \/ \E c \in Slots : AuthReply(c, "authenticated")
    \/ \E c \in Slots, data \in InboundMessages : Inbound(c, data)

SpecInbound == Init /\ [][InboundNext]_vars

\* responses submitted while the test is moved on to the next task, with a
\* backend that accepts every call
OverlapNext ==
    \/ Login
    \/ AwaitedCreateSession("ielts")
    \/ SubmitResponse(TRUE)
    \/ NextTask
    \/ \E i \in Ops : CreateReply(i, TRUE, FALSE)
    \/ \E i \in Ops : LoadReply(i)
    \/ \E i \in Ops : StartReply(i, TRUE)
    \/ \E i \in Ops : UploadReply(i, TRUE)
    \/ \E i \in Ops : SubmitReply(i, TRUE)
    \/ \E i \in Ops : ScoreReply(i, TRUE)

SpecOverlap == Init /\ [][OverlapNext]_vars

\* sessions created one call at a time, with a backend that may offer a
\* voice socket, which the store then connects
CreateNext ==
    \/ Login
    \/ Logout
    \/ \E t \in Types : AwaitedCreateSession(t)
    \/ AwaitedNextTask
    \/ \E i \in Ops, ok, websocket_url \in BOOLEAN : CreateReply(i, ok, websocket_url)
    \/ \E i \in Ops : LoadReply(i)
    \/ \E i \in Ops, ok \in BOOLEAN : StartReply(i, ok)
    \/ \E i \in Ops, ok \in BOOLEAN : ScoreReply(i, ok)
    \/ \E c \in Slots : SocketOpen(c)
    \/ \E c \in Slots : AuthReply(c, "authenticated")
    \/ \E c \in Slots : SocketClose(c, TRUE)

SpecCreate == Init /\ [][CreateNext]_vars

\* the capture service alone, with its calls recorded
CaptureNext ==
    \/ AudioNext
    \/ \E empty \in BOOLEAN : DataAvailable(empty)
    \/ \E r \in 1..MaxRecordings, empty \in BOOLEAN : FinalData(r, empty)
    \/ \E ch \in Chunks : BlobRead(ch)

InitCapture ==
    /\ InitBase
    /\ hist = NoHistory
    /\ script = NoScript
    /\ capture = [NoCapture EXCEPT !.on = TRUE]

SpecCapture == InitCapture /\ [][CaptureNext]_vars

\* one recording whose sink is rebound while chunks are produced and read
RebindNext ==
    \/ Initialize(TRUE)
    \/ \E b \in {"null", "wrapper", "raw"} : SetWebSocket(b)
    \/ StartRecording
    \/ DataAvailable(FALSE)
    \/ \E ch \in Chunks : BlobRead(ch)

InitRebind ==
    /\ InitBase
    /\ hist = NoHistory
    /\ script = NoScript
    /\ capture = [NoCapture EXCEPT !.sinks = TRUE]

SpecRebind == InitRebind /\ [][RebindNext]_vars

\* the capture pipeline bound to a manager that connects once
PipelineNext ==
    \/ AudioNext
    \/ FirstConnect
    \/ \E c \in Slots : SocketOpen(c)
    \/ \E c \in Slots, type \in {"authenticated", "auth_error"} : AuthReply(c, type)
    \/ \E c \in Slots : SocketClose(c, TRUE)

SpecAudio == Init /\ [][PipelineNext]_vars

\* ------------------------------------------------------------------ claims

\* two messages of one recording, both for chunks produced while the bound
\* connection was Authenticated, the first written before the second
SameRecording(i, j) ==
    /\ i < j
    /\ audioWire[i].audio.rec = audioWire[j].audio.rec
    /\ audioWire[i].audio \in authedChunks
    /\ audioWire[j].audio \in authedChunks

\* C1: within one recording, audio_chunk messages reach the transport in
\* capture order: of two messages of the same recording (chunks produced with
\* the bound connection Authenticated) the one written first carries the
\* chunk produced first.
C1_CaptureOrder ==
    \A i, j \in 1..Len(audioWire) :
        SameRecording(i, j) => audioWire[i].audio.seq < audioWire[j].audio.seq

\* C2: every chunk produced while the bound connection is Authenticated (and
\* stays so until its handler has run) is written exactly once, and within a
\* recording every message carries a sequence id strictly greater than the
\* message before it.
C2_ExactlyOnceIncreasingIds ==
    /\ \A ch \in authedChunks \ reading :
           Cardinality({i \in 1..Len(audioWire) : audioWire[i].audio = ch}) = 1
    /\ \A i, j \in 1..Len(audioWire) :
           SameRecording(i, j) => audioWire[i].chunk_id < audioWire[j].chunk_id

\* C3: at most MAX_RECONNECT_ATTEMPTS reconnection connects are made without
\* the connection reaching Authenticated in between, and the counter itself
\* never exceeds the cap.
C3_AttemptsCapped ==
    /\ reconnectAttempts <= MAX_RECONNECT_ATTEMPTS
    /\ hist.attempts <= MAX_RECONNECT_ATTEMPTS

\* C4: once MAX_RECONNECT_ATTEMPTS consecutive reconnection connects have
\* failed, reconnectionFailed has been emitted exactly once, no reconnection
\* timer is pending and no further reconnection connect has been made.
C4_FailedOnceThenQuiet ==
    hist.failed >= MAX_RECONNECT_ATTEMPTS
        => /\ hist.emitted = 1
           /\ TimerCount(World) = 0
           /\ hist.attempts = MAX_RECONNECT_ATTEMPTS
           /\ hist.failed = MAX_RECONNECT_ATTEMPTS

\* C5: reconnectAttempts is 0 right after every step that reaches
\* Authenticated, and only such a step takes it from a non-zero value to 0.
C5_ResetExactlyOnAuthenticated ==
    [][ /\ (~isAuthenticated /\ isAuthenticated') => reconnectAttempts' = 0
        /\ (reconnectAttempts # 0 /\ reconnectAttempts' = 0)
               => (~isAuthenticated /\ isAuthenticated') ]_vars

\* call c sent its auth message on its own transport, no reply has arrived
\* there, and its 10 s timeout has expired
TimedOutUnanswered(c) ==
    /\ calls[c].sentOwn
    /\ calls[c].reply = "none"
    /\ calls[c].auth \in {"pending", "timeout"}
    /\ ~calls[c].authTimer

\* C6: a connect() whose auth message got no reply by the time its 10 s
\* timeout has expired has failed: its promise is rejected, not left pending.
C6_TimeoutRejects ==
    \A c \in Slots :
        TimedOutUnanswered(c) => calls[c].promise \in {"timeout", "rejected"}

\* C7: the step in which connect() fails with the authentication timeout
\* leaves the manager Disconnected: not connected, not authenticated, the
\* transport of that call not connecting or open, and no reconnection timer
\* added.
C7_TimeoutLeavesDisconnected ==
    [][ \A c \in Slots :
          (calls[c].promise = "pending" /\ calls'[c].promise = "timeout")
              => /\ ~isConnected'
                 /\ ~isAuthenticated'
                 /\ calls'[c].ready \notin {"connecting", "open"}
                 /\ timers' = timers ]_vars

\* C8: from disconnect() until the next connect() the manager holds no
\* transport and is neither connected nor authenticated.
C8_DisconnectStaysClosed ==
    userClosed => (socket = 0 /\ ~isConnected /\ ~isAuthenticated)

\* C9: a transport opened by a reconnection timer is opened on the session
\* whose auth token the timer captured.
C9_TimerKeepsItsSession ==
    \A c \in Slots :
        (calls[c].ready # "free" /\ calls[c].viaTimer)
            => calls[c].sid # 0 /\ calls[c].token = TokenOf(calls[c].sid)

\* C10: the manager is Authenticated only while its current transport is
\* open and an `authenticated` reply has arrived on that transport.
C10_AuthenticatedOnCurrentTransport ==
    isAuthenticated
        => /\ socket # 0
           /\ calls[socket].ready = "open"
           /\ calls[socket].reply = "authenticated"

\* C11: a send() call of a client writes its message exactly when the manager
\* is Authenticated, and in every other state it returns false.
C11_SendOnlyWhenAuthenticated ==
    sendLog.called
        => /\ sendLog.wrote <=> sendLog.authed
           /\ ~sendLog.authed => ~sendLog.returned

\* C12: no audio_chunk message is written for a chunk produced while the
\* bound connection was not Authenticated: a step that writes one while the
\* connection is still not Authenticated does not happen.
C12_UnauthenticatedChunkDropped ==
    [][ Len(audioWire') > Len(audioWire)
          => \/ audioWire'[Len(audioWire')].audio \in authedChunks
             \/ Authenticated(World) ]_vars

\* the delays of the reconnection attempts 1..5, in ms
Delays == << 1000, 2000, 4000, 8000, 16000 >>

C14_PingOnlyWhenAuthenticated == FALSE \notin pingLog

\* C15: phase never goes from Preparation straight to Completed, and goes
\* from Completed back to Preparation only when a new session is created (or
\* the store is reset).
C15_PhaseOrder ==
    [][ /\ store.testState.phase = "preparation"
            => store'.testState.phase # "completed"
        /\ (store.testState.phase = "completed"
                /\ store'.testState.phase = "preparation")
            => (created' > created \/ store'.currentSession = 0) ]_vars

\* C16: a completeTest() that moves phase to Completed was invoked with
\* currentTask = totalTasks.
C16_CompleteOnlyAtLastTask ==
    [][ \A i \in Ops :
          (ops[i].pc = "score" /\ store.testState.phase # "completed"
              /\ store'.testState.phase = "completed")
              => ops[i].taskAtCall = store.testState.totalTasks ]_vars

\* C17: a submitResponse() called in a phase other than Response is
\* rejected: it has returned a failure and has made no upload call and no
\* task-submission call.
C17_SubmitOnlyInResponse ==
    \A i \in Ops :
        (ops[i].kind = "submitResponse" /\ ops[i].phaseAtCall # "response")
            => /\ ops[i].pc = "done"
               /\ ops[i].result # "success"
               /\ ops[i].uploads = 0
               /\ ops[i].submits = 0

\* C18: recordings holds at most one Recording per task, and no more
\* Recordings than the test has tasks.
C18_OneRecordingPerTask ==
    LET recs == store.testState.recordings
    IN  /\ \A m, n \in 1..Len(recs) : m # n => recs[m].task # recs[n].task
        /\ Len(recs) <= store.testState.totalTasks

\* C19: recordings.length equals the number of submitResponse calls that
\* returned success since the session's test state was set up, whatever
\* number of calls failed.
C19_OneRecordingPerSuccess == Len(store.testState.recordings) = subs.ok

\* two submissions have succeeded and one has failed
C19_Witness == subs.ok = 2 /\ subs.failed

\* C20: the step in which a submitResponse() fails at the upload or at the
\* task submission returns the error, leaves phase, currentTask and
\* recordings as they were, and, if it is the upload that failed, has made
\* no task-submission call.
C20_FailedSubmitChangesNothing ==
    [][ \A i \in Ops :
          (ops[i].pc \in {"upload", "submit"} /\ ops'[i].pc = "done"
              /\ ops'[i].result # "success")
              => /\ ops'[i].result \in {"Audio upload failed", "backend", "TypeError"}
                 /\ store'.error = ops'[i].result
                 /\ store'.testState.phase = store.testState.phase
                 /\ store'.testState.currentTask = store.testState.currentTask
                 /\ store'.testState.recordings = store.testState.recordings
                 /\ ops[i].pc = "upload" => ops'[i].submits = 0 ]_vars

\* an upload has failed and its call has returned the error
C20_Witness ==
    \E i \in Ops : /\ ops[i].kind = "submitResponse"
                    /\ ops[i].pc = "done"
                    /\ ops[i].result = "Audio upload failed"
                    /\ ops[i].uploads = 1

\* C21: the task index stays within 1..totalTasks.
C21_TaskIndexInRange ==
    /\ 1 <= store.testState.currentTask
    /\ store.testState.currentTask <= store.testState.totalTasks

\* a nextTask() was called at the last task of a session, and went on to
\* the scoring call
C21_Witness ==
    /\ store.currentSession # 0
    /\ store.testState.currentTask = store.testState.totalTasks
    /\ \E i \in Ops : ops[i].kind = "nextTask" /\ ops[i].pc = "score"

\* operation slot i takes a call of nextTask() in this step
NextTaskCalled(i) ==
    /\ ops[i].pc \in {"free", "done"}
    /\ ops'[i].kind = "nextTask"
    /\ ops'[i] # ops[i]

\* C22: after k < totalTasks calls of nextTask() since the test state was
\* set up (subs.nexts counts them, and stops at totalTasks - 1) the index is
\* 1 + k; a call below the last task adds one to the
\* index and sets phase to Preparation, and a following failure of the
\* start-task call changes neither; a call at the last task leaves the index
\* and goes into completeTest().
C22_NextTaskAdvances ==
    /\ [](/\ subs.nexts < store.testState.totalTasks
          /\ store.testState.currentTask = 1 + subs.nexts)
    /\ [][ \A i \in Ops :
            /\ NextTaskCalled(i) =>
                 IF store.testState.currentTask < store.testState.totalTasks
                 THEN /\ store'.testState.currentTask = store.testState.currentTask + 1
                      /\ store'.testState.phase = "preparation"
                 ELSE /\ store'.testState.currentTask = store.testState.currentTask
                      /\ \/ ops'[i].pc = "score" /\ ops'[i].scorings = 1
                         \/ ops'[i].result = "No active session"
            /\ (ops[i].pc = "start.api" /\ ops'[i].pc = "done"
                    /\ ops'[i].result # "success")
                 => /\ store'.testState.currentTask = store.testState.currentTask
                    /\ store'.testState.phase = store.testState.phase ]_vars

\* three nextTask() calls have taken a TOEFL session to its last task, the
\* last of them with its start-task call failed
C22_Witness ==
    /\ subs.nexts = 3
    /\ store.testState.currentTask = 4
    /\ \E i \in Ops : /\ ops[i].kind = "nextTask"
                       /\ ops[i].pc = "done"
                       /\ ops[i].result = "backend"

\* C23: when the scoring call of completeTest() succeeds, phase becomes
\* Completed, the end time is recorded and the scores are stored; when it
\* fails the failure is returned and the test state (phase, scores, end time,
\* recordings, task index) is unchanged.
C23_CompleteTestOutcome ==
    [][ \A i \in Ops :
          (ops[i].pc = "score" /\ ops'[i].pc = "done") =>
             IF ops'[i].result = "success"
             THEN /\ store'.testState.phase = "completed"
                  /\ store'.testState.endTime
                  /\ store'.testState.scores
                  /\ store'.testState.recordings = store.testState.recordings
                  /\ store'.testState.currentTask = store.testState.currentTask
             ELSE /\ ops'[i].result = "backend"
                  /\ store'.error = "backend"
                  /\ store'.testState = store.testState ]_vars

\* a completeTest() has failed and one has succeeded in the same session
C23_Witness ==
    /\ store.currentSession # 0
    /\ store.testState.phase = "completed"
    /\ store.testState.endTime
    /\ store.error = "backend"
    /\ \E i \in Ops : ops[i].kind = "completeTest" /\ ops[i].pc = "done"

\* C24: a successful createSession(testType, mode) stores the session and
\* sets the task index to 1, phase to Preparation, recordings to empty,
\* scores to none and totalTasks to 4 for TOEFL, 3 for IELTS.
C24_CreateInitialises ==
    [][ \A i \in Ops :
          (ops[i].pc = "create.api" /\ ops'[i].pc # "create.api"
               /\ created' # created) =>
             /\ store'.currentSession = created'
             /\ store'.testState.type = ops[i].testType
             /\ store'.testState.currentTask = 1
             /\ store'.testState.phase = "preparation"
             /\ store'.testState.recordings = << >>
             /\ ~store'.testState.scores
             /\ ops[i].testType = "toefl" => store'.testState.totalTasks = 4
             /\ ops[i].testType = "ielts" => store'.testState.totalTasks = 3 ]_vars

\* a second session, of 3 tasks, has been created and stored by a
\* createSession() that returned success
C24_Witness ==
    /\ created = 2
    /\ store.currentSession = 2
    /\ store.testState.type = "ielts"
    /\ store.testState.totalTasks = 3
    /\ \E i \in Ops : /\ ops[i].kind = "createSession"
                       /\ ops[i].pc = "done"
                       /\ ops[i].result = "success"

\* C25: createSession() with no logged-in user fails with "Authentication
\* required" before the session-creation API is called and without a
\* connection being opened; when the API fails, the call fails with the
\* backend's message; the stored session and the test state are unchanged in
\* both cases.
C25_CreateFailures ==
    [][ \A i \in Ops :
          /\ (/\ ops[i].pc \in {"free", "done"}
               /\ ops'[i] # ops[i]
               /\ ops'[i].kind = "createSession"
               /\ ~loggedIn) =>
                 /\ ops'[i].pc = "done"
                 /\ ops'[i].result = "Authentication required"
                 /\ store'.error = "Authentication required"
                 /\ calls' = calls
                 /\ socket' = socket
                 /\ created' = created
                 /\ store'.currentSession = store.currentSession
                 /\ store'.testState = store.testState
          /\ (/\ ops[i].pc = "create.api"
               /\ ops'[i].pc = "done"
               /\ ops'[i].result # "success") =>
                 /\ ops'[i].result = "backend"
                 /\ store'.error = "backend"
                 /\ calls' = calls
                 /\ socket' = socket
                 /\ created' = created
                 /\ store'.currentSession = store.currentSession
                 /\ store'.testState = store.testState ]_vars

\* a createSession() was refused for want of a user while a session advanced
\* to its second task is stored
C25_Witness ==
    /\ store.currentSession # 0
    /\ store.testState.currentTask = 2
    /\ ~loggedIn
    /\ \E i \in Ops : /\ ops[i].kind = "createSession"
                       /\ ops[i].pc = "done"
                       /\ ops[i].result = "Authentication required"

\* C26: one call of submitResponse() makes at most one upload call and at
\* most one task-submission call, and one call of completeTest() (or of the
\* nextTask() that goes into it) makes at most one scoring call, whatever
\* they return.
C26_NoAutoRetry ==
    \A i \in Ops : /\ ops[i].uploads <= 1
                   /\ ops[i].submits <= 1
                   /\ ops[i].scorings <= 1

\* a submitResponse() has failed after its one upload and its one submission
C26_Witness ==
    \E i \in Ops : /\ ops[i].kind = "submitResponse"
                   /\ ops[i].pc = "done"
                   /\ ops[i].result = "backend"
                   /\ ops[i].uploads = 1
                   /\ ops[i].submits = 1

\* C27: a TOEFL practice run in which every external call succeeds ends
\* with phase Completed, four recordings and totalTasks = 4.
C27_FullRunCompletes ==
    (script.type = "toefl" /\ script.pc = "end" /\ Idle) =>
        /\ store.testState.phase = "completed"
        /\ Len(store.testState.recordings) = 4
        /\ store.testState.totalTasks = 4

\* the run has ended: completeTest() was the last call, and it has returned
C27_Witness ==
    /\ script.type = "toefl"
    /\ script.pc = "end"
    /\ script.task = 4
    /\ Idle
    /\ ops[1].kind = "completeTest"
    /\ ops[1].result = "success"

\* C28: a startRecording() call made while no microphone stream is held
\* (before any successful initialize(), or after cleanup()) fails with
\* 'Audio stream not initialized' and starts no capture.
C28_NotInitialized ==
    (capture.last.called /\ ~capture.last.held) =>
        /\ capture.last.result = "NotInitialized"
        /\ capture.last.unchanged

\* startRecording() was refused for want of a stream after an initialize()
\* and a cleanup()
C28_Witness ==
    /\ capture.cleaned
    /\ recording > 0
    /\ ~audioStream
    /\ capture.last.called
    /\ ~capture.last.held
    /\ capture.last.result = "NotInitialized"

\* C29: at most one recorder is recording at a time; a startRecording() call
\* made while a recording is active is refused (it returns false), creates no
\* recorder and leaves the active recording as it was.
C29_OneActiveRecording ==
    /\ Cardinality(capture.active) <= 1
    /\ (capture.last.called /\ capture.last.busy) =>
           /\ capture.last.result = "false"
           /\ capture.last.unchanged

\* startRecording() was refused while the second recording was running
C29_Witness ==
    /\ capture.active = {2}
    /\ isRecording
    /\ capture.last.called
    /\ capture.last.busy
    /\ capture.last.result = "false"

\* C30: after cleanup() no recording is active and every microphone stream
\* acquired by earlier initialize() calls has been released.
C30_CleanupReleasesAll ==
    capture.justCleaned =>
        /\ capture.active = {}
        /\ ~isRecording
        /\ ~audioStream
        /\ capture.live = 0

\* C31: a chunk is handed to the connection that was bound when the chunk was
\* produced, also when setWebSocket() rebinds the sink before the chunk's
\* blob has been read.
C31_RebindFromNextChunk == capture.handedTo \subseteq capture.boundAt

\* C32: a successful startTest() sets phase to Preparation and has a
\* conversation_start message written to the backend exactly when the
\* manager is connected and authenticated at that moment; a failed one
\* leaves phase as it was and has none written.
C32_ConversationStartIffAuthenticated ==
    [][ \A i \in Ops :
          (ops[i].pc = "start.api" /\ ops'[i].pc = "done") =>
             IF ops'[i].result = "success"
             THEN /\ store'.testState.phase = "preparation"
                  /\ subs'.conv <=> (isConnected /\ isAuthenticated)
             ELSE /\ store'.testState.phase = store.testState.phase
                  /\ ~subs'.conv ]_vars

\* C33: a transcription, aiResponse or realTimeFeedback event changes
\* neither the test state (phase, task index, totalTasks, recordings, scores)
\* nor the stored session.
C33_InboundLeavesTestState ==
    [][ (/\ store'.notified # store.notified
         /\ store'.notified.event \in
                {"transcriptionReceived", "aiResponseReceived", "realTimeFeedback"})
        => /\ store'.testState = store.testState
           /\ store'.currentSession = store.currentSession
           /\ store'.sessionStatus = store.sessionStatus ]_vars

\* a transcription has arrived in a completed test
C33_Witness ==
    /\ store.notified.event = "transcriptionReceived"
    /\ store.currentSession # 0
    /\ store.testState.phase = "completed"

\* C34: on a sessionUpdated event the status the server reports is the
\* status of the local session afterwards, and the session stays the same
\* session.
C34_SessionUpdateMerged ==
    [][ (/\ store'.notified # store.notified
         /\ store'.notified.event = "sessionUpdated")
        => /\ store'.sessionStatus = store'.notified.reported
           /\ store'.currentSession = store.currentSession ]_vars

\* C35: the task-submission call of a submitResponse() and the Recording it
\* appends carry the task index that was current when submitResponse() was
\* called.
C35_RecordedAgainstTaskAtCall ==
    [][ \A i \in Ops :
          /\ (ops[i].pc = "upload" /\ ops'[i].pc = "submit")
                 => ops'[i].task = ops[i].taskAtCall
          /\ (ops[i].pc = "submit" /\ ops'[i].pc = "done"
                  /\ ops'[i].result = "success")
                 => /\ store'.testState.recordings # << >>
                    /\ store'.testState.recordings[
                           Len(store'.testState.recordings)].task
                         = ops[i].taskAtCall ]_vars

\* C36: the manager is never authenticated without being connected.
C36_AuthenticatedImpliesConnected == isAuthenticated => isConnected

\* C37: at most one heartbeat interval is running, and none while the
\* manager is not connected: no interval runs without a handle by which it
\* will be cleared.
C37_OneHeartbeat ==
    /\ orphans = 0
    /\ heartbeatInterval => isConnected

\* the sockets that are connecting or open, each with the manager's handlers
LiveTransports == {c \in Slots : calls[c].ready \in {"connecting", "open"}}

\* C38: the manager has at most one live transport and at most one pending
\* reconnection timer.
C38_OneTransportOneTimer ==
    /\ Cardinality(LiveTransports) <= 1
    /\ TimerCount(World) <= 1

\* the step is the dispatch of an `authenticated` message
AuthenticatedDispatched ==
    \E c \in Slots : /\ calls[c].ready = "open"
                      /\ calls[c].authRecv > 0
                      /\ calls'[c].authRecv = calls[c].authRecv - 1
                      /\ calls'[c].reply = "authenticated"

\* C39: emit('message', data) invokes every handler registered when the
\* dispatch begins: after an `authenticated` message every auth listener
\* that was registered has run, that is, has resolved its handshake.
C39_EmitReachesEveryHandler ==
    [][AuthenticatedDispatched =>
          \A i \in 1..Len(listeners) :
              calls'[listeners[i]].auth = "resolved"]_vars

\* the store operations that have called the session-creation API and await
\* its reply
CreationsInFlight == {i \in Ops : ops[i].pc = "create.api"}

\* C40: while one startTest() or createSession() awaits the reply of the
\* session-creation API, no other invocation calls that API.
C40_OneCreationInFlight == Cardinality(CreationsInFlight) <= 1

====
